---- MODULE Spec2Model ----
(***************************************************************************)
(* Model of reference/firmware-update-reference.js: the firmware locator,   *)
(* the device prober, the device info fetch, the uploader, the reboot       *)
(* trigger, the update orchestrator and the command line entry point.       *)
(* Strings whose contents the code inspects (file names, device names,      *)
(* board names) are sequences of one-character strings.                     *)
(***************************************************************************)
EXTENDS Integers, Sequences, FiniteSets, TLC

\* ------------------------------------------------------------------ bounds
MaxFiles == 3

\* ------------------------------------------------------------------ CONFIG
DEFAULT_PORT == 8000
FIRMWARE_PROCESSING_WAIT == 7000
SEND_REBOOT_WAIT == 1500
MAIN_BOARD_REBOOT_WAIT == 7000
REAR_BOARD_REBOOT_WAIT == 20000
PROBE_TIMEOUT == 3000
HTTP_OK == 200
REBOOT_CONTENT_LENGTH == 4

ENDPOINTS ==
  [FIRMWARE_CHARGER |-> "/api/v2/device/firmware_charger",
   FIRMWARE_REAR    |-> "/api/v2/device/firmware_rear",
   REBOOT           |-> "/api/v2/device/reboot",
   INFO             |-> "/api/v2/device/info"]

TargetIp == "10.110.73.155"

\* ------------------------------------------------------- character strings
\* The characters used by the model, in increasing UTF-16 code unit order.
Alphabet ==
  <<"-", ".", "0", "1", "2", "K", "L", "R", "V", "_",
    "a", "b", "d", "e", "g", "i", "k", "l", "m", "n", "o", "r", "s", "v", "w", "x">>

CharCode(c) == CHOOSE i \in 1..Len(Alphabet) : Alphabet[i] = c

\* String.prototype.toLowerCase on one character
LowerChar(c) ==
  CASE c = "K" -> "k"
    [] c = "L" -> "l"
    [] c = "R" -> "r"
    [] c = "V" -> "v"
    [] OTHER   -> c

toLowerCase(s) == [i \in 1..Len(s) |-> LowerChar(s[i])]

\* String.prototype.startsWith / endsWith / includes
startsWith(s, p) ==
  /\ Len(p) <= Len(s)
  /\ SubSeq(s, 1, Len(p)) = p

endsWith(s, p) ==
  /\ Len(p) <= Len(s)
  /\ SubSeq(s, Len(s) - Len(p) + 1, Len(s)) = p

includes(s, p) ==
  \E i \in 1..(Len(s) + 1) :
     /\ i + Len(p) - 1 <= Len(s)
     /\ SubSeq(s, i, i + Len(p) - 1) = p

\* the default comparison of Array.prototype.sort: a < b by code units
RECURSIVE StrLess(_, _)
StrLess(a, b) ==
  IF Len(b) = 0 THEN FALSE
  ELSE IF Len(a) = 0 THEN TRUE
  ELSE IF CharCode(Head(a)) < CharCode(Head(b)) THEN TRUE
  ELSE IF CharCode(Head(a)) > CharCode(Head(b)) THEN FALSE
  ELSE StrLess(Tail(a), Tail(b))

\* Array.prototype.sort without a comparator (insertion into a sorted list)
RECURSIVE Insert(_, _)
Insert(x, sorted) ==
  IF sorted = <<>> THEN <<x>>
  ELSE IF StrLess(x, Head(sorted)) THEN <<x>> \o sorted
  ELSE <<Head(sorted)>> \o Insert(x, Tail(sorted))

RECURSIVE sort(_)
sort(list) ==
  IF list = <<>> THEN <<>> ELSE Insert(Head(list), sort(Tail(list)))

\* Array.prototype.reverse
reverse(list) == [i \in 1..Len(list) |-> list[Len(list) + 1 - i]]

\* ---------------------------------------------------------------- errors
Error(text) == [text |-> text, hasStatus |-> FALSE, status |-> 0]

ErrorWithStatus(label, st) == [text |-> <<label>>, hasStatus |-> TRUE, status |-> st]

NoError == Error(<<>>)

\* ------------------------------------------------------ firmware locator
MAIN_PREFIX == <<"m", "a", "i", "n", "_">>
REAR_PREFIX == <<"r", "e", "a", "r", "_">>
SIGNED_SUFFIX == <<".", "s", "i", "g", "n", "e", "d", ".", "b", "i", "n">>

\* file names a firmware/ directory of the model may hold
FileNames ==
  { MAIN_PREFIX \o <<"1">> \o SIGNED_SUFFIX,
    MAIN_PREFIX \o <<"2">> \o SIGNED_SUFFIX,
    MAIN_PREFIX \o <<"1", "0">> \o SIGNED_SUFFIX,
    MAIN_PREFIX \o <<"2">> \o <<".", "b", "i", "n">>,
    REAR_PREFIX \o <<"1">> \o SIGNED_SUFFIX,
    REAR_PREFIX \o <<"2">> \o SIGNED_SUFFIX,
    <<"r", "e", "a", "r">> \o SIGNED_SUFFIX }

\* fs.readdir returns the names in directory order, which is any order
Listings ==
  UNION { { l \in [1..n -> FileNames] : \A i, j \in 1..n : i # j => l[i] # l[j] }
          : n \in 0..MaxFiles }

\* isMainFile without the check of the suffix
isMainFile_PrefixOnly(f) == startsWith(f, MAIN_PREFIX)

isMainFile(f) == startsWith(f, MAIN_PREFIX) /\ endsWith(f, SIGNED_SUFFIX)
isRearFile(f) == startsWith(f, REAR_PREFIX) /\ endsWith(f, SIGNED_SUFFIX)

\* mainFiles without reverse(): the list stays in ascending order
mainFiles_Ascending(files) == sort(SelectSeq(files, isMainFile))

\* files.filter(...).sort().reverse()
mainFiles(files) == reverse(sort(SelectSeq(files, isMainFile)))
rearFiles(files) == reverse(sort(SelectSeq(files, isRearFile)))

NoBundle == [main |-> <<>>, rear |-> <<>>]

\* findLatestFirmwareFiles: readdirOk, accessMainOk and accessRearOk are the
\* outcomes of fs.readdir and of the two fs.access calls
findLatestFirmwareFiles(files, readdirOk, accessMainOk, accessRearOk) ==
  LET wrap(inner) ==
        [ok |-> FALSE, bundle |-> NoBundle,
         error |-> Error(<<"Failed to find firmware files: ">> \o inner)]
  IN  IF ~readdirOk THEN wrap(<<"ENOENT">>)
      ELSE IF Len(mainFiles(files)) = 0
        THEN wrap(<<"No main firmware files found in firmware/ directory">>)
      ELSE IF Len(rearFiles(files)) = 0
        THEN wrap(<<"No rear firmware files found in firmware/ directory">>)
      ELSE IF ~accessMainOk THEN wrap(<<"EACCES">>)
      ELSE IF ~accessRearOk THEN wrap(<<"EACCES">>)
      ELSE [ok |-> TRUE,
            bundle |-> [main |-> mainFiles(files)[1], rear |-> rearFiles(files)[1]],
            error |-> NoError]

\* ------------------------------------------------------- JavaScript values
Undefined == [t |-> "undefined", s |-> <<>>, n |-> 0]
StringValue(chars) == [t |-> "string", s |-> chars, n |-> 0]
NumberValue(k) == [t |-> "number", s |-> <<>>, n |-> k]

\* ToBoolean
Truthy(v) ==
  \/ v.t = "string" /\ Len(v.s) > 0
  \/ v.t = "number" /\ v.n # 0

\* a || b
Or(a, b) == IF Truthy(a) THEN a ELSE b

UNKNOWN == StringValue(<<"U", "n", "k", "n", "o", "w", "n">>)
KLVR == <<"k", "l", "v", "r">>

\* ------------------------------------------------- what the device can send
Statuses == {200, 404, 500}
NetErrors == {"ECONNREFUSED", "ECONNRESET"}

DeviceNameValues ==
  { Undefined, StringValue(<<>>), StringValue(<<"K", "L", "v", "R", "-", "1">>),
    StringValue(<<"b", "o", "x">>), NumberValue(1) }
NameValues ==
  { Undefined, StringValue(<<"x", "k", "l", "v", "r">>), StringValue(<<"k", "l", "v">>) }
VersionValues == { Undefined, StringValue(<<"1", ".", "0">>) }
SerialValues == { Undefined, StringValue(<<>>), StringValue(<<"1", "0">>) }
MacValues == { Undefined, StringValue(<<>>), StringValue(<<"a", "a", "-", "b", "b">>) }

\* the ip member of the info object: absent, null, a string, or an object
IpValues ==
  { [t |-> "undefined", macAddress |-> Undefined],
    [t |-> "null", macAddress |-> Undefined],
    [t |-> "string", macAddress |-> Undefined] }
  \cup { [t |-> "object", macAddress |-> m] : m \in MacValues }

NoInfo ==
  [deviceName |-> Undefined, name |-> Undefined, firmwareVersion |-> Undefined,
   serialNumber |-> Undefined, ip |-> [t |-> "undefined", macAddress |-> Undefined]]

\* response bodies: text that is not JSON, the JSON text null, or a JSON object
Bodies ==
  { [parse |-> "error", info |-> NoInfo], [parse |-> "null", info |-> NoInfo] }
  \cup { [parse |-> "object",
          info |-> [deviceName |-> d, name |-> n, firmwareVersion |-> v,
                    serialNumber |-> sn, ip |-> i]]
         : d \in DeviceNameValues, n \in NameValues, v \in VersionValues,
           sn \in SerialValues, i \in IpValues }

\* bodies of the info requests of the update, where only parsing matters
InfoBodies ==
  { b \in Bodies : b.info.deviceName = Undefined /\ b.info.name = Undefined
                   /\ b.info.serialNumber = Undefined /\ b.info.ip.t = "undefined" }

\* firmware images a file may hold
Payloads == { <<1>>, <<1, 2>> }

\* ---------------------------------------------------------- device prober
Null == [t |-> "null", ip |-> "", deviceName |-> Undefined,
         firmwareVersion |-> Undefined, serialNumber |-> Undefined]

\* info.ip?.macAddress
ipMacAddress(info) ==
  IF info.ip.t = "object" THEN info.ip.macAddress ELSE Undefined

\* testDeviceConnectionOnEnd comparing the name without toLowerCase
testDeviceConnectionOnEnd_CaseSensitive(ip, body) ==
  IF body.parse # "object" THEN Null
  ELSE LET info == body.info
           deviceName == Or(info.deviceName, info.name)
       IN  IF ~Truthy(deviceName) THEN Null
           ELSE IF deviceName.t # "string" THEN Null
           ELSE IF includes(deviceName.s, KLVR)
             THEN [t |-> "identity", ip |-> ip, deviceName |-> deviceName,
                   firmwareVersion |-> info.firmwareVersion,
                   serialNumber |-> Or(Or(info.serialNumber, ipMacAddress(info)), UNKNOWN)]
           ELSE Null

\* the 'end' handler of testDeviceConnection: the value the promise is
\* resolved with.  JSON.parse throwing, a property read of null and
\* toLowerCase of a non-string all land in the catch block.
testDeviceConnectionOnEnd(ip, body) ==
  IF body.parse # "object" THEN Null
  ELSE LET info == body.info
           deviceName == Or(info.deviceName, info.name)
       IN  IF ~Truthy(deviceName) THEN Null
           ELSE IF deviceName.t # "string" THEN Null
           ELSE IF includes(toLowerCase(deviceName.s), KLVR)
             THEN [t |-> "identity", ip |-> ip, deviceName |-> deviceName,
                   firmwareVersion |-> info.firmwareVersion,
                   serialNumber |-> Or(Or(info.serialNumber, ipMacAddress(info)), UNKNOWN)]
           ELSE Null

\* ------------------------------------------------------ device info fetch
\* the 'end' handler of getDeviceInfo; the status code is not looked at
getDeviceInfoOnEnd(statusCode, body) ==
  IF body.parse = "object"
    THEN [resolved |-> TRUE, info |-> body.info, error |-> NoError]
    ELSE [resolved |-> FALSE, info |-> NoInfo,
          error |-> Error(<<"Failed to parse device info response">>)]

\* ------------------------------------------------------------- requests
NoBody == <<>>

testDeviceConnectionRequest(ip) ==
  [tag |-> "probe", method |-> "GET", hostname |-> ip, port |-> DEFAULT_PORT,
   path |-> ENDPOINTS.INFO, query |-> <<>>, hasLength |-> FALSE, contentLength |-> 0,
   body |-> NoBody, timeout |-> PROBE_TIMEOUT]

getDeviceInfoRequest(deviceIp) ==
  [tag |-> "info", method |-> "GET", hostname |-> deviceIp, port |-> DEFAULT_PORT,
   path |-> ENDPOINTS.INFO, query |-> <<>>, hasLength |-> FALSE, contentLength |-> 0,
   body |-> NoBody, timeout |-> 0]

\* uploadFirmwareRequest with the two endpoints the wrong way round
uploadFirmwareRequest_SwappedPath(deviceIp, firmware, isMainBoard) ==
  [tag |-> "upload", method |-> "POST", hostname |-> deviceIp, port |-> DEFAULT_PORT,
   path |-> IF isMainBoard THEN ENDPOINTS.FIRMWARE_REAR ELSE ENDPOINTS.FIRMWARE_CHARGER,
   query |-> <<>>, hasLength |-> TRUE, contentLength |-> Len(firmware.bytes),
   body |-> firmware.bytes, timeout |-> 0]

uploadFirmwareRequest(deviceIp, firmware, isMainBoard) ==
  [tag |-> "upload", method |-> "POST", hostname |-> deviceIp, port |-> DEFAULT_PORT,
   path |-> IF isMainBoard THEN ENDPOINTS.FIRMWARE_CHARGER ELSE ENDPOINTS.FIRMWARE_REAR,
   query |-> <<>>, hasLength |-> TRUE, contentLength |-> Len(firmware.bytes),
   body |-> firmware.bytes, timeout |-> 0]

rebootDeviceRequest(deviceIp, board) ==
  [tag |-> "reboot", method |-> "POST", hostname |-> deviceIp, port |-> DEFAULT_PORT,
   path |-> ENDPOINTS.REBOOT, query |-> board, hasLength |-> TRUE,
   contentLength |-> REBOOT_CONTENT_LENGTH, body |-> board, timeout |-> 0]

\* uploadFirmwareOnEnd taking every status below 500 as success
uploadFirmwareOnEnd_Below500(statusCode) == [ok |-> statusCode < 500, status |-> statusCode]

\* the 'end' handlers of uploadFirmware and rebootDevice
uploadFirmwareOnEnd(statusCode) == [ok |-> statusCode = HTTP_OK, status |-> statusCode]
\* rebootDeviceOnEnd taking every 2xx status as success
rebootDeviceOnEnd_Any2xx(statusCode) ==
  [ok |-> statusCode >= 200 /\ statusCode < 300, status |-> statusCode]

rebootDeviceOnEnd(statusCode) == [ok |-> statusCode = HTTP_OK, status |-> statusCode]

MAIN == <<"m", "a", "i", "n">>
REAR == <<"r", "e", "a", "r">>

\* ------------------------------------------------------------------ state
VARIABLES
  pc,            \* position of the command line flow
  firmwareFiles, \* result of findLatestFirmwareFiles
  probeState,    \* the probe request: idle, sent, ended, errored, destroyed
  promise,       \* the promise testDeviceConnection returns
  resolveCalls,  \* how often a handler of the probe called resolve
  probeInput,    \* what the probe request ended with (history)
  deviceInfo,    \* deviceInfo of the command line flow
  mainFirmware,  \* Buffer read from the main firmware file
  rearFirmware,  \* Buffer read from the rear firmware file
  inflight,      \* requests sent and neither answered, failed nor destroyed
  timers,        \* pending setTimeout durations
  events,        \* requests issued and waits elapsed, in order (history)
  responses,     \* status codes the update received, in order (history)
  failure,       \* the step that failed and why (history)
  error,         \* the error the process reported
  exitCode,      \* -1 while the process runs, else its exit code
  applied        \* the last function applied on its own: name, arguments, result

vars ==
  <<pc, firmwareFiles, probeState, promise, resolveCalls, probeInput, deviceInfo,
    mainFirmware, rearFirmware, inflight, timers, events, responses, failure,
    error, exitCode, applied>>

NoBuffer == [file |-> <<>>, bytes |-> <<>>]
NoFailure == [step |-> "none", cause |-> "none", status |-> 0]
NoProbeInput == [cause |-> "none", body |-> [parse |-> "error", info |-> NoInfo]]
Pending == [state |-> "pending", value |-> Null]
NoCall == [fn |-> "none"]

RequestEvent(name, board) == [kind |-> "request", name |-> name, board |-> board, ms |-> 0]
WaitEvent(ms) == [kind |-> "wait", name |-> "wait", board |-> "none", ms |-> ms]

Init ==
  /\ pc = "start"
  /\ firmwareFiles = NoBundle
  /\ probeState = "idle"
  /\ promise = Pending
  /\ resolveCalls = 0
  /\ probeInput = NoProbeInput
  /\ deviceInfo = Null
  /\ mainFirmware = NoBuffer
  /\ rearFirmware = NoBuffer
  /\ inflight = <<>>
  /\ timers = <<>>
  /\ events = <<>>
  /\ responses = <<>>
  /\ failure = NoFailure
  /\ error = NoError
  /\ exitCode = -1
  /\ applied = NoCall

\* ---------------------------------------------------------------- helpers
\* the request with this tag leaves the wire (answered, failed or destroyed)
Settled(reqs, tag) ==
  IF \E i \in 1..Len(reqs) : reqs[i].tag = tag
    THEN LET i == CHOOSE k \in 1..Len(reqs) :
                    /\ reqs[k].tag = tag
                    /\ \A j \in 1..(k - 1) : reqs[j].tag # tag
         IN  SubSeq(reqs, 1, i - 1) \o SubSeq(reqs, i + 1, Len(reqs))
    ELSE reqs

\* resolve(value) of a promise: only the first call has an effect
resolve(p, value) ==
  IF p.state = "pending" THEN [state |-> "resolved", value |-> value] ELSE p

\* Exit1 without process.exit(1): the error is logged and the process ends
\* with code 0
Exit1_NoExitCode(err, why) ==
  /\ pc' = "exited"
  /\ exitCode' = 0
  /\ error' = err
  /\ failure' = why

\* the catch block of the command line flow: report and process.exit(1)
Exit1(err, why) ==
  /\ pc' = "exited"
  /\ exitCode' = 1
  /\ error' = err
  /\ failure' = why

\* a throw inside executeFirmwareUpdate: logged, rethrown, caught by the
\* command line flow
Throw(err, why) == Exit1(err, why)

\* await new Promise(resolve => setTimeout(resolve, ms))
StartWait(ms, next) ==
  /\ timers' = Append(timers, ms)
  /\ pc' = next

\* Locate with the probe started before the locator is awaited
Locate_ProbeStarted ==
  /\ pc = "start"
  /\ inflight' = Append(inflight, testDeviceConnectionRequest(TargetIp))
  /\ events' = Append(events, RequestEvent("probe", "none"))
  /\ probeState' = "sent"
  /\ \E files \in Listings, readdirOk, accessMainOk, accessRearOk \in BOOLEAN :
       LET found == findLatestFirmwareFiles(files, readdirOk, accessMainOk, accessRearOk)
       IN  IF found.ok
             THEN /\ pc' = "probing"
                  /\ firmwareFiles' = found.bundle
                  /\ UNCHANGED <<exitCode, error, failure>>
             ELSE /\ Exit1(found.error, [step |-> "locate", cause |-> "locator", status |-> 0])
                  /\ UNCHANGED firmwareFiles
  /\ UNCHANGED <<promise, resolveCalls, probeInput, deviceInfo, mainFirmware,
                 rearFirmware, timers, responses>>
  /\ UNCHANGED applied

\* ------------------------------------------------------ command line flow
\* await findLatestFirmwareFiles()
Locate ==
  /\ pc = "start"
  /\ \E files \in Listings, readdirOk, accessMainOk, accessRearOk \in BOOLEAN :
       LET found == findLatestFirmwareFiles(files, readdirOk, accessMainOk, accessRearOk)
       IN  IF found.ok
             THEN /\ pc' = "located"
                  /\ firmwareFiles' = found.bundle
                  /\ UNCHANGED <<exitCode, error, failure>>
             ELSE /\ Exit1(found.error, [step |-> "locate", cause |-> "locator", status |-> 0])
                  /\ UNCHANGED firmwareFiles
  /\ UNCHANGED <<probeState, promise, resolveCalls, probeInput, deviceInfo, mainFirmware,
                 rearFirmware, inflight, timers, events, responses>>
  /\ UNCHANGED applied

\* testDeviceConnection(targetIp) up to req.end()
ProbeSend ==
  /\ pc = "located"
  /\ pc' = "probing"
  /\ probeState' = "sent"
  /\ inflight' = Append(inflight, testDeviceConnectionRequest(TargetIp))
  /\ events' = Append(events, RequestEvent("probe", "none"))
  /\ UNCHANGED <<firmwareFiles, promise, resolveCalls, probeInput, deviceInfo, mainFirmware,
                 rearFirmware, timers, responses, failure, error, exitCode>>
  /\ UNCHANGED applied

\* res.on('end') of the probe
ProbeOnEnd ==
  /\ pc = "probing"
  /\ probeState = "sent"
  /\ \E statusCode \in Statuses, body \in Bodies :
       /\ promise' = resolve(promise, testDeviceConnectionOnEnd(TargetIp, body))
       /\ probeInput' = [cause |-> "end", body |-> body]
  /\ probeState' = "ended"
  /\ resolveCalls' = resolveCalls + 1
  /\ inflight' = Settled(inflight, "probe")
  /\ UNCHANGED <<pc, firmwareFiles, deviceInfo, mainFirmware, rearFirmware, timers,
                 events, responses, failure, error, exitCode>>
  /\ UNCHANGED applied

\* ProbeOnError rejecting the promise, as the error handler of getDeviceInfo
\* does
ProbeOnError_Rejects ==
  /\ pc = "probing"
  /\ probeState \in {"sent", "destroyed"}
  /\ promise' = IF promise.state = "pending"
                  THEN [state |-> "rejected", value |-> Null]
                  ELSE promise
  /\ probeInput' = IF probeState = "sent"
                     THEN [cause |-> "error", body |-> NoProbeInput.body]
                     ELSE probeInput
  /\ probeState' = "errored"
  /\ resolveCalls' = resolveCalls + 1
  /\ inflight' = Settled(inflight, "probe")
  /\ UNCHANGED <<pc, firmwareFiles, deviceInfo, mainFirmware, rearFirmware, timers,
                 events, responses, failure, error, exitCode>>
  /\ UNCHANGED applied

\* req.on('error') of the probe: a connection error, or the error the
\* destroyed request emits after a timeout
ProbeOnError ==
  /\ pc = "probing"
  /\ probeState \in {"sent", "destroyed"}
  /\ promise' = resolve(promise, Null)
  /\ probeInput' = IF probeState = "sent"
                     THEN [cause |-> "error", body |-> NoProbeInput.body]
                     ELSE probeInput
  /\ probeState' = "errored"
  /\ resolveCalls' = resolveCalls + 1
  /\ inflight' = Settled(inflight, "probe")
  /\ UNCHANGED <<pc, firmwareFiles, deviceInfo, mainFirmware, rearFirmware, timers,
                 events, responses, failure, error, exitCode>>
  /\ UNCHANGED applied

\* req.on('timeout') of the probe: req.destroy(), resolve(null)
ProbeOnTimeout ==
  /\ pc = "probing"
  /\ probeState = "sent"
  /\ promise' = resolve(promise, Null)
  /\ probeInput' = [cause |-> "timeout", body |-> NoProbeInput.body]
  /\ probeState' = "destroyed"
  /\ resolveCalls' = resolveCalls + 1
  /\ inflight' = Settled(inflight, "probe")
  /\ UNCHANGED <<pc, firmwareFiles, deviceInfo, mainFirmware, rearFirmware, timers,
                 events, responses, failure, error, exitCode>>
  /\ UNCHANGED applied

\* MainAfterProbe without the check of deviceInfo
MainAfterProbe_NoNullCheck ==
  /\ pc = "probing"
  /\ promise.state # "pending"
  /\ deviceInfo' = promise.value
  /\ pc' = "info"
  /\ inflight' = Append(inflight, getDeviceInfoRequest(TargetIp))
  /\ events' = Append(events, RequestEvent("info", "none"))
  /\ UNCHANGED <<firmwareFiles, probeState, promise, resolveCalls, probeInput, mainFirmware,
                 rearFirmware, timers, responses, exitCode, error, failure>>
  /\ UNCHANGED applied

\* the flow after await testDeviceConnection: exit on null, else
\* executeFirmwareUpdate up to the request of getDeviceInfo
MainAfterProbe ==
  /\ pc = "probing"
  /\ promise.state # "pending"
  /\ IF promise.state = "rejected"
       THEN /\ Exit1(Error(<<"probe rejected">>),
                     [step |-> "probe", cause |-> "rejected", status |-> 0])
            /\ UNCHANGED <<deviceInfo, inflight, events>>
       ELSE /\ deviceInfo' = promise.value
            /\ IF promise.value.t = "null"
                 THEN /\ Exit1(Error(<<"[DISCOVERY] Failed to connect to device at ", TargetIp>>),
                               [step |-> "probe", cause |-> "null", status |-> 0])
                      /\ UNCHANGED <<inflight, events>>
                 ELSE /\ pc' = "info"
                      /\ inflight' = Append(inflight, getDeviceInfoRequest(TargetIp))
                      /\ events' = Append(events, RequestEvent("info", "none"))
                      /\ UNCHANGED <<exitCode, error, failure>>
  /\ UNCHANGED <<firmwareFiles, probeState, promise, resolveCalls, probeInput, mainFirmware,
                 rearFirmware, timers, responses>>
  /\ UNCHANGED applied

\* -------------------------------------------------- executeFirmwareUpdate
\* 1. res.on('end') of the first getDeviceInfo, then fs.readFile is started
InfoOnEnd ==
  /\ pc = "info"
  /\ \E statusCode \in Statuses, body \in InfoBodies :
       LET fetched == getDeviceInfoOnEnd(statusCode, body)
       IN  /\ responses' = Append(responses, [call |-> "info", status |-> statusCode])
           /\ IF fetched.resolved
                THEN /\ pc' = "readMain"
                     /\ UNCHANGED <<exitCode, error, failure>>
                ELSE Throw(fetched.error,
                           [step |-> "info", cause |-> "parse", status |-> statusCode])
  /\ inflight' = Settled(inflight, "info")
  /\ UNCHANGED <<firmwareFiles, probeState, promise, resolveCalls, probeInput, deviceInfo,
                 mainFirmware, rearFirmware, timers, events>>
  /\ UNCHANGED applied

\* req.on('error') of the first getDeviceInfo
InfoOnError ==
  /\ pc = "info"
  /\ \E e \in NetErrors :
       Throw(Error(<<e>>), [step |-> "info", cause |-> "network", status |-> 0])
  /\ inflight' = Settled(inflight, "info")
  /\ UNCHANGED <<firmwareFiles, probeState, promise, resolveCalls, probeInput, deviceInfo,
                 mainFirmware, rearFirmware, timers, events, responses>>
  /\ UNCHANGED applied

\* ReadMainFirmware with uploadFirmware(main) sent before the rear file is read
ReadMainFirmware_UploadFirst ==
  /\ pc = "readMain"
  /\ \E readOk \in BOOLEAN, bytes \in Payloads :
       IF readOk
         THEN /\ mainFirmware' = [file |-> firmwareFiles.main, bytes |-> bytes]
              /\ pc' = "readRear"
              /\ inflight' = Append(inflight,
                                    uploadFirmwareRequest(TargetIp, mainFirmware', TRUE))
              /\ events' = Append(events, RequestEvent("upload", "main"))
              /\ UNCHANGED <<exitCode, error, failure>>
         ELSE /\ Throw(Error(<<"ENOENT">>),
                       [step |-> "readMain", cause |-> "file", status |-> 0])
              /\ UNCHANGED <<mainFirmware, inflight, events>>
  /\ UNCHANGED <<firmwareFiles, probeState, promise, resolveCalls, probeInput, deviceInfo,
                 rearFirmware, timers, responses>>
  /\ UNCHANGED applied

\* 2. await fs.readFile(mainFirmwarePath)
ReadMainFirmware ==
  /\ pc = "readMain"
  /\ \E readOk \in BOOLEAN, bytes \in Payloads :
       IF readOk
         THEN /\ mainFirmware' = [file |-> firmwareFiles.main, bytes |-> bytes]
              /\ pc' = "readRear"
              /\ UNCHANGED <<exitCode, error, failure>>
         ELSE /\ Throw(Error(<<"ENOENT">>),
                       [step |-> "readMain", cause |-> "file", status |-> 0])
              /\ UNCHANGED mainFirmware
  /\ UNCHANGED <<firmwareFiles, probeState, promise, resolveCalls, probeInput, deviceInfo,
                 rearFirmware, inflight, timers, events, responses>>
  /\ UNCHANGED applied

\* 2. await fs.readFile(rearFirmwarePath); 3. uploadFirmware(main) is sent
ReadRearFirmware ==
  /\ pc = "readRear"
  /\ \E readOk \in BOOLEAN, bytes \in Payloads :
       IF readOk
         THEN /\ rearFirmware' = [file |-> firmwareFiles.rear, bytes |-> bytes]
              /\ pc' = "uploadMain"
              /\ inflight' = Append(inflight, uploadFirmwareRequest(TargetIp, mainFirmware, TRUE))
              /\ events' = Append(events, RequestEvent("upload", "main"))
              /\ UNCHANGED <<exitCode, error, failure>>
         ELSE /\ Throw(Error(<<"ENOENT">>),
                       [step |-> "readRear", cause |-> "file", status |-> 0])
              /\ UNCHANGED <<rearFirmware, inflight, events>>
  /\ UNCHANGED <<firmwareFiles, probeState, promise, resolveCalls, probeInput, deviceInfo,
                 mainFirmware, timers, responses>>
  /\ UNCHANGED applied

\* UploadMainOnEnd without the check of mainResponse.ok
UploadMainOnEnd_NoCheck ==
  /\ pc = "uploadMain"
  /\ \E statusCode \in Statuses :
       responses' = Append(responses, [call |-> "uploadMain", status |-> statusCode])
  /\ StartWait(FIRMWARE_PROCESSING_WAIT, "waitMainProcessing")
  /\ inflight' = Settled(inflight, "upload")
  /\ UNCHANGED <<firmwareFiles, probeState, promise, resolveCalls, probeInput, deviceInfo,
                 mainFirmware, rearFirmware, events, exitCode, error, failure>>
  /\ UNCHANGED applied

\* 3./4. res.on('end') of the main upload; the processing wait starts
UploadMainOnEnd ==
  /\ pc = "uploadMain"
  /\ \E statusCode \in Statuses :
       LET mainResponse == uploadFirmwareOnEnd(statusCode)
       IN  /\ responses' = Append(responses, [call |-> "uploadMain", status |-> statusCode])
           /\ IF ~mainResponse.ok
                THEN /\ Throw(ErrorWithStatus("Main board firmware upload failed: ",
                                              mainResponse.status),
                              [step |-> "uploadMain", cause |-> "status",
                               status |-> statusCode])
                     /\ UNCHANGED timers
                ELSE /\ StartWait(FIRMWARE_PROCESSING_WAIT, "waitMainProcessing")
                     /\ UNCHANGED <<exitCode, error, failure>>
  /\ inflight' = Settled(inflight, "upload")
  /\ UNCHANGED <<firmwareFiles, probeState, promise, resolveCalls, probeInput, deviceInfo,
                 mainFirmware, rearFirmware, events>>
  /\ UNCHANGED applied

\* MainProcessingWaited sending the rear upload where rebootDevice(main)
\* belongs
MainProcessingWaited_RearFirst ==
  /\ pc = "waitMainProcessing"
  /\ Len(timers) > 0
  /\ timers' = Tail(timers)
  /\ events' = events \o <<WaitEvent(Head(timers)), RequestEvent("upload", "rear")>>
  /\ inflight' = Append(inflight, uploadFirmwareRequest(TargetIp, rearFirmware, FALSE))
  /\ pc' = "uploadRear"
  /\ UNCHANGED <<firmwareFiles, probeState, promise, resolveCalls, probeInput, deviceInfo,
                 mainFirmware, rearFirmware, responses, failure, error, exitCode>>
  /\ UNCHANGED applied

\* 4./5. the processing wait elapsed; rebootDevice(main) is sent
MainProcessingWaited ==
  /\ pc = "waitMainProcessing"
  /\ Len(timers) > 0
  /\ timers' = Tail(timers)
  /\ events' = events \o <<WaitEvent(Head(timers)), RequestEvent("reboot", "main")>>
  /\ inflight' = Append(inflight, rebootDeviceRequest(TargetIp, MAIN))
  /\ pc' = "rebootMain"
  /\ UNCHANGED <<firmwareFiles, probeState, promise, resolveCalls, probeInput, deviceInfo,
                 mainFirmware, rearFirmware, responses, failure, error, exitCode>>
  /\ UNCHANGED applied

\* RebootMainOnEnd waiting MAIN_BOARD_REBOOT_WAIT after the main reboot
RebootMainOnEnd_LongWait ==
  /\ pc = "rebootMain"
  /\ \E statusCode \in Statuses :
       LET mainRebootResponse == rebootDeviceOnEnd(statusCode)
       IN  /\ responses' = Append(responses, [call |-> "rebootMain", status |-> statusCode])
           /\ IF ~mainRebootResponse.ok
                THEN /\ Throw(ErrorWithStatus("Main board reboot failed: ",
                                              mainRebootResponse.status),
                              [step |-> "rebootMain", cause |-> "status",
                               status |-> statusCode])
                     /\ UNCHANGED timers
                ELSE /\ StartWait(MAIN_BOARD_REBOOT_WAIT, "waitRebootSignal")
                     /\ UNCHANGED <<exitCode, error, failure>>
  /\ inflight' = Settled(inflight, "reboot")
  /\ UNCHANGED <<firmwareFiles, probeState, promise, resolveCalls, probeInput, deviceInfo,
                 mainFirmware, rearFirmware, events>>
  /\ UNCHANGED applied

\* 5./6. res.on('end') of the main reboot; the propagation wait starts
RebootMainOnEnd ==
  /\ pc = "rebootMain"
  /\ \E statusCode \in Statuses :
       LET mainRebootResponse == rebootDeviceOnEnd(statusCode)
       IN  /\ responses' = Append(responses, [call |-> "rebootMain", status |-> statusCode])
           /\ IF ~mainRebootResponse.ok
                THEN /\ Throw(ErrorWithStatus("Main board reboot failed: ",
                                              mainRebootResponse.status),
                              [step |-> "rebootMain", cause |-> "status",
                               status |-> statusCode])
                     /\ UNCHANGED timers
                ELSE /\ StartWait(SEND_REBOOT_WAIT, "waitRebootSignal")
                     /\ UNCHANGED <<exitCode, error, failure>>
  /\ inflight' = Settled(inflight, "reboot")
  /\ UNCHANGED <<firmwareFiles, probeState, promise, resolveCalls, probeInput, deviceInfo,
                 mainFirmware, rearFirmware, events>>
  /\ UNCHANGED applied

\* 6./7. the propagation wait elapsed; uploadFirmware(rear) is sent
RebootSignalWaited ==
  /\ pc = "waitRebootSignal"
  /\ Len(timers) > 0
  /\ timers' = Tail(timers)
  /\ events' = events \o <<WaitEvent(Head(timers)), RequestEvent("upload", "rear")>>
  /\ inflight' = Append(inflight, uploadFirmwareRequest(TargetIp, rearFirmware, FALSE))
  /\ pc' = "uploadRear"
  /\ UNCHANGED <<firmwareFiles, probeState, promise, resolveCalls, probeInput, deviceInfo,
                 mainFirmware, rearFirmware, responses, failure, error, exitCode>>
  /\ UNCHANGED applied

\* UploadRearOnEnd without awaiting the processing wait: the timer is started
\* and rebootDevice(rear) is sent at once
UploadRearOnEnd_NoAwait ==
  /\ pc = "uploadRear"
  /\ \E statusCode \in Statuses :
       LET rearResponse == uploadFirmwareOnEnd(statusCode)
       IN  /\ responses' = Append(responses, [call |-> "uploadRear", status |-> statusCode])
           /\ IF ~rearResponse.ok
                THEN /\ Throw(ErrorWithStatus("Rear board firmware upload failed: ",
                                              rearResponse.status),
                              [step |-> "uploadRear", cause |-> "status",
                               status |-> statusCode])
                     /\ inflight' = Settled(inflight, "upload")
                     /\ UNCHANGED <<timers, events>>
                ELSE /\ timers' = Append(timers, FIRMWARE_PROCESSING_WAIT)
                     /\ events' = Append(events, RequestEvent("reboot", "rear"))
                     /\ inflight' = Append(Settled(inflight, "upload"),
                                           rebootDeviceRequest(TargetIp, REAR))
                     /\ pc' = "rebootRear"
                     /\ UNCHANGED <<exitCode, error, failure>>
  /\ UNCHANGED <<firmwareFiles, probeState, promise, resolveCalls, probeInput, deviceInfo,
                 mainFirmware, rearFirmware>>
  /\ UNCHANGED applied

\* 7./8. res.on('end') of the rear upload; the processing wait starts
UploadRearOnEnd ==
  /\ pc = "uploadRear"
  /\ \E statusCode \in Statuses :
       LET rearResponse == uploadFirmwareOnEnd(statusCode)
       IN  /\ responses' = Append(responses, [call |-> "uploadRear", status |-> statusCode])
           /\ IF ~rearResponse.ok
                THEN /\ Throw(ErrorWithStatus("Rear board firmware upload failed: ",
                                              rearResponse.status),
                              [step |-> "uploadRear", cause |-> "status",
                               status |-> statusCode])
                     /\ UNCHANGED timers
                ELSE /\ StartWait(FIRMWARE_PROCESSING_WAIT, "waitRearProcessing")
                     /\ UNCHANGED <<exitCode, error, failure>>
  /\ inflight' = Settled(inflight, "upload")
  /\ UNCHANGED <<firmwareFiles, probeState, promise, resolveCalls, probeInput, deviceInfo,
                 mainFirmware, rearFirmware, events>>
  /\ UNCHANGED applied

\* 8./9. the processing wait elapsed; rebootDevice(rear) is sent
RearProcessingWaited ==
  /\ pc = "waitRearProcessing"
  /\ Len(timers) > 0
  /\ timers' = Tail(timers)
  /\ events' = events \o <<WaitEvent(Head(timers)), RequestEvent("reboot", "rear")>>
  /\ inflight' = Append(inflight, rebootDeviceRequest(TargetIp, REAR))
  /\ pc' = "rebootRear"
  /\ UNCHANGED <<firmwareFiles, probeState, promise, resolveCalls, probeInput, deviceInfo,
                 mainFirmware, rearFirmware, responses, failure, error, exitCode>>
  /\ UNCHANGED applied

\* 9./10. res.on('end') of the rear reboot; the full reboot wait starts
RebootRearOnEnd ==
  /\ pc = "rebootRear"
  /\ \E statusCode \in Statuses :
       LET rearRebootResponse == rebootDeviceOnEnd(statusCode)
       IN  /\ responses' = Append(responses, [call |-> "rebootRear", status |-> statusCode])
           /\ IF ~rearRebootResponse.ok
                THEN /\ Throw(ErrorWithStatus("Rear board reboot failed: ",
                                              rearRebootResponse.status),
                              [step |-> "rebootRear", cause |-> "status",
                               status |-> statusCode])
                     /\ UNCHANGED timers
                ELSE /\ StartWait(REAR_BOARD_REBOOT_WAIT, "waitRearReboot")
                     /\ UNCHANGED <<exitCode, error, failure>>
  /\ inflight' = Settled(inflight, "reboot")
  /\ UNCHANGED <<firmwareFiles, probeState, promise, resolveCalls, probeInput, deviceInfo,
                 mainFirmware, rearFirmware, events>>
  /\ UNCHANGED applied

\* 10. the full reboot wait elapsed; the best-effort getDeviceInfo is sent
RearRebootWaited ==
  /\ pc = "waitRearReboot"
  /\ Len(timers) > 0
  /\ timers' = Tail(timers)
  /\ events' = events \o <<WaitEvent(Head(timers)), RequestEvent("info", "none")>>
  /\ inflight' = Append(inflight, getDeviceInfoRequest(TargetIp))
  /\ pc' = "finalInfo"
  /\ UNCHANGED <<firmwareFiles, probeState, promise, resolveCalls, probeInput, deviceInfo,
                 mainFirmware, rearFirmware, responses, failure, error, exitCode>>
  /\ UNCHANGED applied

\* executeFirmwareUpdate returns, the flow logs success and ends; the
\* process exits with code 0 once nothing is pending
Finish ==
  /\ pc' = "done"
  /\ exitCode' = 0

\* res.on('end') of the best-effort getDeviceInfo: a parse failure is caught
FinalInfoOnEnd ==
  /\ pc = "finalInfo"
  /\ \E statusCode \in Statuses, body \in InfoBodies :
       LET fetched == getDeviceInfoOnEnd(statusCode, body)
       IN  /\ responses' = Append(responses, [call |-> "finalInfo", status |-> statusCode])
           /\ failure' = IF fetched.resolved THEN failure
                         ELSE [step |-> "finalInfo", cause |-> "parse", status |-> statusCode]
  /\ Finish
  /\ inflight' = Settled(inflight, "info")
  /\ UNCHANGED <<firmwareFiles, probeState, promise, resolveCalls, probeInput, deviceInfo,
                 mainFirmware, rearFirmware, timers, events, error>>
  /\ UNCHANGED applied

\* FinalInfoOnError without the inner try: the rejection fails the update
FinalInfoOnError_Throws ==
  /\ pc = "finalInfo"
  /\ \E e \in NetErrors :
       Throw(Error(<<e>>), [step |-> "finalInfo", cause |-> "network", status |-> 0])
  /\ inflight' = Settled(inflight, "info")
  /\ UNCHANGED <<firmwareFiles, probeState, promise, resolveCalls, probeInput, deviceInfo,
                 mainFirmware, rearFirmware, timers, events, responses>>
  /\ UNCHANGED applied

\* req.on('error') of the best-effort getDeviceInfo: the rejection is caught
FinalInfoOnError ==
  /\ pc = "finalInfo"
  /\ failure' = [step |-> "finalInfo", cause |-> "network", status |-> 0]
  /\ Finish
  /\ inflight' = Settled(inflight, "info")
  /\ UNCHANGED <<firmwareFiles, probeState, promise, resolveCalls, probeInput, deviceInfo,
                 mainFirmware, rearFirmware, timers, events, responses, error>>
  /\ UNCHANGED applied

\* UploadOnError sending the same upload again instead of rejecting
UploadOnError_Retry ==
  /\ pc \in {"uploadMain", "uploadRear"}
  /\ inflight' = Append(Settled(inflight, "upload"),
                        IF pc = "uploadMain"
                          THEN uploadFirmwareRequest(TargetIp, mainFirmware, TRUE)
                          ELSE uploadFirmwareRequest(TargetIp, rearFirmware, FALSE))
  /\ events' = Append(events, events[Len(events)])
  /\ UNCHANGED <<pc, firmwareFiles, probeState, promise, resolveCalls, probeInput, deviceInfo,
                 mainFirmware, rearFirmware, timers, responses, failure, error, exitCode>>
  /\ UNCHANGED applied

\* req.on('error') of uploadFirmware
UploadOnError ==
  /\ pc \in {"uploadMain", "uploadRear"}
  /\ \E e \in NetErrors :
       Throw(Error(<<e>>), [step |-> pc, cause |-> "network", status |-> 0])
  /\ inflight' = Settled(inflight, "upload")
  /\ UNCHANGED <<firmwareFiles, probeState, promise, resolveCalls, probeInput, deviceInfo,
                 mainFirmware, rearFirmware, timers, events, responses>>
  /\ UNCHANGED applied

\* RebootOnError as a 'timeout' handler: the request is given up although
\* the device neither answered nor failed
RebootOnError_Timeout ==
  /\ pc \in {"rebootMain", "rebootRear"}
  /\ Throw(Error(<<"timeout">>), [step |-> pc, cause |-> "timeout", status |-> 0])
  /\ inflight' = Settled(inflight, "reboot")
  /\ UNCHANGED <<firmwareFiles, probeState, promise, resolveCalls, probeInput, deviceInfo,
                 mainFirmware, rearFirmware, timers, events, responses>>
  /\ UNCHANGED applied

\* req.on('error') of rebootDevice
RebootOnError ==
  /\ pc \in {"rebootMain", "rebootRear"}
  /\ \E e \in NetErrors :
       Throw(Error(<<e>>), [step |-> pc, cause |-> "network", status |-> 0])
  /\ inflight' = Settled(inflight, "reboot")
  /\ UNCHANGED <<firmwareFiles, probeState, promise, resolveCalls, probeInput, deviceInfo,
                 mainFirmware, rearFirmware, timers, events, responses>>
  /\ UNCHANGED applied

Next ==
  \/ Locate
  \/ ProbeSend
  \/ ProbeOnEnd
  \/ ProbeOnError
  \/ ProbeOnTimeout
  \/ MainAfterProbe
  \/ InfoOnEnd
  \/ InfoOnError
  \/ ReadMainFirmware
  \/ ReadRearFirmware
  \/ UploadMainOnEnd
  \/ MainProcessingWaited
  \/ RebootMainOnEnd
  \/ RebootSignalWaited
  \/ UploadRearOnEnd
  \/ RearProcessingWaited
  \/ RebootRearOnEnd
  \/ RearRebootWaited
  \/ FinalInfoOnEnd
  \/ FinalInfoOnError
  \/ UploadOnError
  \/ RebootOnError

Spec == Init /\ [][Next]_vars

\* the event loop runs every continuation and timer that is due, and every
\* request sent gets its response or its error
LiveSpec == Spec /\ WF_vars(Next)

\* ------------------------------------------- the functions on their own
\* Each function is applied to arguments drawn from small sets; applied
\* records the arguments and the result of that one application.  The command
\* line flow does not run.
mainVars ==
  <<pc, firmwareFiles, probeState, promise, resolveCalls, probeInput, deviceInfo,
    mainFirmware, rearFirmware, inflight, timers, events, responses, failure,
    error, exitCode>>

\* status codes a response may carry
StatusCodes == {200, 201, 204, 301, 404, 500}

\* what ends a request: the response's 'end' or the request's 'error'
HttpEvents ==
  { [kind |-> "end", status |-> sc, code |-> ""] : sc \in StatusCodes }
  \cup { [kind |-> "error", status |-> 0, code |-> e] : e \in NetErrors }

\* board names a caller may pass to rebootDevice
BoardNames == { MAIN, REAR, <<"i", "o">>, <<"f", "r", "o", "n", "t">> }

NoOutcome == [ok |-> FALSE, status |-> 0]

\* uploadFirmware: the request it sends and the promise it returns
uploadFirmware(deviceIp, firmware, isMainBoard, event) ==
  [request |-> uploadFirmwareRequest(deviceIp, firmware, isMainBoard),
   promise |-> IF event.kind = "end"
                 THEN [state |-> "resolved", value |-> uploadFirmwareOnEnd(event.status),
                       error |-> NoError]
                 ELSE [state |-> "rejected", value |-> NoOutcome,
                       error |-> Error(<<event.code>>)]]

\* rebootDevice: the request it sends and the promise it returns
rebootDevice(deviceIp, board, event) ==
  [request |-> rebootDeviceRequest(deviceIp, board),
   promise |-> IF event.kind = "end"
                 THEN [state |-> "resolved", value |-> rebootDeviceOnEnd(event.status),
                       error |-> NoError]
                 ELSE [state |-> "rejected", value |-> NoOutcome,
                       error |-> Error(<<event.code>>)]]

ApplyFindLatestFirmwareFiles ==
  /\ applied.fn = "none"
  /\ \E files \in Listings, readdirOk, accessMainOk, accessRearOk \in BOOLEAN :
       applied' = [fn |-> "findLatestFirmwareFiles", files |-> files,
                   readdirOk |-> readdirOk, accessMainOk |-> accessMainOk,
                   accessRearOk |-> accessRearOk,
                   result |-> findLatestFirmwareFiles(files, readdirOk, accessMainOk,
                                                      accessRearOk)]
  /\ UNCHANGED mainVars

ApplyUploadFirmware ==
  /\ applied.fn = "none"
  /\ \E bytes \in Payloads, file \in FileNames, isMainBoard \in BOOLEAN,
        event \in HttpEvents :
       LET firmware == [file |-> file, bytes |-> bytes]
       IN  applied' = [fn |-> "uploadFirmware", firmware |-> firmware,
                       isMainBoard |-> isMainBoard, event |-> event,
                       result |-> uploadFirmware(TargetIp, firmware, isMainBoard, event)]
  /\ UNCHANGED mainVars

ApplyRebootDevice ==
  /\ applied.fn = "none"
  /\ \E board \in BoardNames, event \in HttpEvents :
       applied' = [fn |-> "rebootDevice", board |-> board, event |-> event,
                   result |-> rebootDevice(TargetIp, board, event)]
  /\ UNCHANGED mainVars

FunctionNext ==
  \/ ApplyFindLatestFirmwareFiles
  \/ ApplyUploadFirmware
  \/ ApplyRebootDevice

FunctionSpec == Init /\ [][FunctionNext]_vars

\* ============================================================== properties
IsUpdateEvent(e) == e.name # "probe"

\* what executeFirmwareUpdate has sent and waited for so far
UpdateEvents == SelectSeq(events, IsUpdateEvent)

IsPrefix(a, b) == Len(a) <= Len(b) /\ SubSeq(b, 1, Len(a)) = a

ExpectedSequence ==
  << RequestEvent("info", "none"),
     RequestEvent("upload", "main"), WaitEvent(7000),
     RequestEvent("reboot", "main"), WaitEvent(1500),
     RequestEvent("upload", "rear"), WaitEvent(7000),
     RequestEvent("reboot", "rear"), WaitEvent(20000),
     RequestEvent("info", "none") >>

RequiredCalls == <<"info", "uploadMain", "rebootMain", "uploadRear", "rebootRear">>
FlashCalls == {"uploadMain", "rebootMain", "uploadRear", "rebootRear"}

AllFiveAnswered200 ==
  /\ Len(responses) >= 5
  /\ \A i \in 1..5 : responses[i].call = RequiredCalls[i] /\ responses[i].status = 200

\* C1: when the device answered 200 to info, upload(main), reboot(main),
\* upload(rear) and reboot(rear), the run has not failed, what it sent and
\* waited for is a prefix of info, upload(main), 7000, reboot(main), 1500,
\* upload(rear), 7000, reboot(rear), 20000, info that is only short of the
\* final wait while that wait is pending, and it is the whole sequence once
\* the final wait elapsed.
C1_SuccessSequence ==
  AllFiveAnswered200 =>
    /\ pc \in {"waitRearReboot", "finalInfo", "done"}
    /\ IsPrefix(UpdateEvents, ExpectedSequence)
    /\ pc = "waitRearReboot" => UpdateEvents = SubSeq(ExpectedSequence, 1, 8) /\ timers = <<20000>>
    /\ pc \in {"finalInfo", "done"} => UpdateEvents = ExpectedSequence

C1_Witness ==
  /\ AllFiveAnswered200
  /\ pc = "done"
  /\ UpdateEvents = ExpectedSequence

StepLabel(call) ==
  CASE call = "uploadMain" -> "Main board firmware upload failed: "
    [] call = "rebootMain" -> "Main board reboot failed: "
    [] call = "uploadRear" -> "Rear board firmware upload failed: "
    [] call = "rebootRear" -> "Rear board reboot failed: "
    [] OTHER -> "Device info failed: "

StepRequest(call) ==
  CASE call = "uploadMain" -> RequestEvent("upload", "main")
    [] call = "rebootMain" -> RequestEvent("reboot", "main")
    [] call = "uploadRear" -> RequestEvent("upload", "rear")
    [] call = "rebootRear" -> RequestEvent("reboot", "rear")
    [] OTHER -> RequestEvent("info", "none")

\* the run stopped at the request of this call: nothing was sent or waited
\* for after it, nothing is pending, and the process exited with code 1
StoppedAt(call) ==
  /\ pc = "exited"
  /\ exitCode = 1
  /\ Len(events) > 0
  /\ events[Len(events)] = StepRequest(call)
  /\ call = "info" => Len(UpdateEvents) = 1
  /\ inflight = <<>>
  /\ timers = <<>>

RequiredFailure ==
  /\ failure.step \in (FlashCalls \cup {"info"})
  /\ failure.cause \in {"status", "network", "parse"}

\* C2 as stated: every failure of a required step stops the run at that step
\* with an error that names the step and its status.
C2_Original ==
  RequiredFailure =>
    /\ StoppedAt(failure.step)
    /\ error = ErrorWithStatus(StepLabel(failure.step), failure.status)

\* C2 amended: a non-200 answer to an upload or reboot, a network error of a
\* required call and a parse error of the first info fetch each stop the run
\* at that step; the error names the step and the status for a non-200
\* answer, is the request's own error for a network error, and is "Failed to
\* parse device info response" for a parse error, the last two without status.
C2_AbortAtFirstFailure ==
  /\ \A i \in 1..Len(responses) :
       (responses[i].call \in FlashCalls /\ responses[i].status # 200) =>
          /\ i = Len(responses)
          /\ StoppedAt(responses[i].call)
          /\ error = ErrorWithStatus(StepLabel(responses[i].call), responses[i].status)
  /\ (RequiredFailure /\ failure.cause = "network") =>
          /\ StoppedAt(failure.step)
          /\ ~error.hasStatus
          /\ \E e \in NetErrors : error.text = <<e>>
  /\ (RequiredFailure /\ failure.cause = "parse") =>
          /\ failure.step = "info"
          /\ StoppedAt("info")
          /\ error = Error(<<"Failed to parse device info response">>)
  /\ pc = "exited" => inflight = <<>> /\ timers = <<>>

C2_Witness ==
  /\ Len(responses) = 2
  /\ responses[2] = [call |-> "uploadMain", status |-> 500]
  /\ error = ErrorWithStatus("Main board firmware upload failed: ", 500)
  /\ pc = "exited"

StatusOf(call) ==
  { responses[i].status : i \in { k \in 1..Len(responses) : responses[k].call = call } }

\* C3: whenever upload(rear) has been sent, exactly info, upload(main), the
\* 7000 ms wait, reboot(main) and the 1500 ms wait came before it, in that
\* order, and upload(main) and reboot(main) were both answered 200.
C3_MainBeforeRear ==
  \A i \in 1..Len(UpdateEvents) :
     UpdateEvents[i] = RequestEvent("upload", "rear") =>
        /\ SubSeq(UpdateEvents, 1, i - 1) = SubSeq(ExpectedSequence, 1, 5)
        /\ StatusOf("uploadMain") = {200}
        /\ StatusOf("rebootMain") = {200}

C3_Witness ==
  /\ pc = "uploadRear"
  /\ UpdateEvents[Len(UpdateEvents)] = RequestEvent("upload", "rear")
  /\ responses[1].status = 404

C5_OneAtATime ==
  /\ Len(inflight) <= 1
  /\ Len(timers) <= 1
  /\ Len(inflight) + Len(timers) <= 1

C5_Witness ==
  /\ Len(timers) = 1
  /\ pc = "waitRebootSignal"
  /\ Len(events) = 5

\* C6: the process ends with code 0 only after every step up to the 20000 ms
\* wait completed with 200 answers, and with code 1 whenever the locator
\* failed, the probe gave null, or a required step of the update failed.
C6_ExitCodes ==
  /\ exitCode = 0 =>
        /\ pc = "done"
        /\ UpdateEvents = ExpectedSequence
        /\ \A c \in FlashCalls : StatusOf(c) = {200}
        /\ failure.step \in {"none", "finalInfo"}
  /\ (pc # "start" /\ firmwareFiles = NoBundle) => exitCode = 1
  /\ (pc # "probing" /\ promise.state = "resolved" /\ promise.value.t = "null") => exitCode = 1
  /\ (\E i \in 1..Len(responses) :
         responses[i].call \in FlashCalls /\ responses[i].status # 200) => exitCode = 1
  /\ failure.step \notin {"none", "finalInfo"} => exitCode = 1
  /\ pc = "done" => exitCode = 0
  /\ pc = "exited" => exitCode = 1

C6_Witness ==
  /\ exitCode = 1
  /\ failure = [step |-> "rebootRear", cause |-> "status", status |-> 404]
  /\ Len(UpdateEvents) = 8

IsFlashEvent(e) == e.name \in {"upload", "reboot"}

\* C7: when the probe resolved null the flow sends nothing but the probe and
\* ends with code 1; any request of the update implies that the probe
\* resolved an identity.
C7_NoUpdateWithoutIdentity ==
  /\ (promise.state = "resolved" /\ promise.value.t = "null") =>
        /\ pc \in {"probing", "exited"}
        /\ pc = "exited" => exitCode = 1
        /\ events = <<RequestEvent("probe", "none")>>
        /\ responses = <<>>
  /\ Len(UpdateEvents) > 0 =>
        /\ promise.state = "resolved"
        /\ promise.value.t = "identity"
        /\ deviceInfo = promise.value

C7_Witness ==
  /\ pc = "exited"
  /\ promise.state = "resolved"
  /\ promise.value.t = "null"
  /\ probeInput.cause = "end"
  /\ probeInput.body.parse = "object"

\* C8: a failure of the info fetch after the 20000 ms wait leaves the run
\* successful: the flow is done with exit code 0 and no error reported.
C8_FinalInfoFailureSwallowed ==
  failure.step = "finalInfo" =>
     /\ pc = "done"
     /\ exitCode = 0
     /\ error = NoError
     /\ UpdateEvents = ExpectedSequence

C8_Witness ==
  /\ failure = [step |-> "finalInfo", cause |-> "network", status |-> 0]
  /\ exitCode = 0

\* the name the probe judges: deviceName when present and non-empty, else name
JudgedName(info) ==
  IF info.deviceName.t # "undefined" /\ ~(info.deviceName.t = "string" /\ info.deviceName.s = <<>>)
    THEN info.deviceName
    ELSE info.name

\* the value is a string with k, l, v, r in a row, in either letter case
ContainsVendor(v) ==
  /\ v.t = "string"
  /\ \E i \in 1..Len(v.s) :
        /\ i + 3 <= Len(v.s)
        /\ v.s[i] \in {"k", "K"}
        /\ v.s[i + 1] \in {"l", "L"}
        /\ v.s[i + 2] \in {"v", "V"}
        /\ v.s[i + 3] \in {"r", "R"}

ResolvedNull == [state |-> "resolved", value |-> Null]

\* C9: the probe's promise is never rejected; it is resolved null after a
\* connection error, a timeout, a body that does not parse and a body whose
\* name lacks the vendor substring; once settled it keeps its value, also
\* when a second handler calls resolve.
C9_ProbeNeverRejects ==
  [][ /\ promise'.state # "rejected"
      /\ resolveCalls' > 0 => promise'.state = "resolved"
      /\ promise.state # "pending" => promise' = promise
      /\ probeInput'.cause \in {"error", "timeout"} => promise' = ResolvedNull
      /\ (probeInput'.cause = "end" /\ probeInput'.body.parse # "object") =>
            promise' = ResolvedNull
      /\ (/\ probeInput'.cause = "end"
          /\ probeInput'.body.parse = "object"
          /\ ~ContainsVendor(JudgedName(probeInput'.body.info))) =>
            promise' = ResolvedNull ]_vars

C9_Witness ==
  /\ resolveCalls = 2
  /\ probeInput.cause = "timeout"
  /\ probeState = "errored"
  /\ promise = ResolvedNull

Present(v) == v.t # "undefined"
NonEmpty(v) == ~(v.t = "string" /\ v.s = <<>>)

C11_OkExactlyOn200 ==
  applied.fn \in {"uploadFirmware", "rebootDevice"} =>
     LET settled == applied.result.promise
     IN  /\ applied.event.kind = "end" =>
              /\ settled.state = "resolved"
              /\ settled.value.ok <=> applied.event.status = 200
              /\ settled.value.status = applied.event.status
         /\ settled.state = "rejected" <=> applied.event.kind = "error"

C11_Witness ==
  /\ applied.fn = "rebootDevice"
  /\ applied.event.kind = "end"
  /\ applied.event.status = 204
  /\ applied.result.promise.state = "resolved"
  /\ ~applied.result.promise.value.ok

\* C12: every upload request in flight is a POST whose Content-Length is the
\* number of bytes of its body; the request of the main upload goes to the
\* firmware_charger path with the bytes read from the main firmware file,
\* the request of the rear upload to the firmware_rear path with the bytes
\* read from the rear firmware file.
C12_UploadRequests ==
  \A i \in 1..Len(inflight) :
     inflight[i].tag = "upload" =>
        LET req == inflight[i]
            board == events[Len(events)].board
        IN  /\ req.method = "POST"
            /\ req.hasLength
            /\ req.contentLength = Len(req.body)
            /\ events[Len(events)].name = "upload"
            /\ board \in {"main", "rear"}
            /\ req.path = "/api/v2/device/firmware_charger" <=> board = "main"
            /\ req.path = "/api/v2/device/firmware_rear" <=> board = "rear"
            /\ board = "main" =>
                 /\ req.body = mainFirmware.bytes
                 /\ mainFirmware.file = firmwareFiles.main
            /\ board = "rear" =>
                 /\ req.body = rearFirmware.bytes
                 /\ rearFirmware.file = firmwareFiles.rear

C12_Witness ==
  /\ pc = "uploadRear"
  /\ Len(inflight) = 1
  /\ inflight[1].path = "/api/v2/device/firmware_rear"
  /\ inflight[1].contentLength = 2
  /\ Len(mainFirmware.bytes) = 1

HasPrefix(f, p) == Len(f) >= Len(p) /\ \A k \in 1..Len(p) : f[k] = p[k]
HasSuffix(f, p) == Len(f) >= Len(p) /\ \A k \in 1..Len(p) : f[Len(f) - Len(p) + k] = p[k]

\* the names of a listing that start with the prefix and end in .signed.bin
Matching(files, prefix) ==
  { files[i] : i \in { k \in 1..Len(files) :
        /\ HasPrefix(files[k], prefix)
        /\ HasSuffix(files[k], <<".", "s", "i", "g", "n", "e", "d", ".", "b", "i", "n">>) } }

MatchingMain(files) == Matching(files, <<"m", "a", "i", "n", "_">>)
MatchingRear(files) == Matching(files, <<"r", "e", "a", "r", "_">>)

LocatorError(inner) == Error(<<"Failed to find firmware files: ", inner>>)

\* C13: for a listing without a main_*.signed.bin name the locator fails
\* with the error about main firmware files, for a listing with such a name
\* but without a rear_*.signed.bin name it fails with the error about rear
\* firmware files, and in both cases it returns no bundle.
C13_MissingCategoryFails ==
  (applied.fn = "findLatestFirmwareFiles" /\ applied.readdirOk) =>
     /\ MatchingMain(applied.files) = {} =>
          /\ ~applied.result.ok
          /\ applied.result.bundle = NoBundle
          /\ applied.result.error =
               LocatorError("No main firmware files found in firmware/ directory")
     /\ (MatchingMain(applied.files) # {} /\ MatchingRear(applied.files) = {}) =>
          /\ ~applied.result.ok
          /\ applied.result.bundle = NoBundle
          /\ applied.result.error =
               LocatorError("No rear firmware files found in firmware/ directory")

C13_Witness ==
  /\ applied.fn = "findLatestFirmwareFiles"
  /\ applied.readdirOk
  /\ Len(applied.files) = 2
  /\ MatchingMain(applied.files) = {}
  /\ \E i \in 1..2 : HasPrefix(applied.files[i], <<"m", "a", "i", "n", "_">>)
  /\ MatchingRear(applied.files) # {}
  /\ applied.result.error = LocatorError("No main firmware files found in firmware/ directory")

\* a is before b in the order of the code units, a proper prefix first
LexLess(a, b) ==
  \E k \in 1..Len(b) :
     /\ \A j \in 1..(k - 1) : j <= Len(a) /\ a[j] = b[j]
     /\ \/ k = Len(a) + 1
        \/ k <= Len(a) /\ CharCode(a[k]) < CharCode(b[k])

\* C14: for a listing with a matching main and a matching rear name, read
\* and accessed without error, the locator returns for each prefix a name of
\* the filtered set that no other name of that set follows in lexicographic
\* order.
C14_SelectsMaximal ==
  applied.fn = "findLatestFirmwareFiles" =>
     LET mains == MatchingMain(applied.files)
         rears == MatchingRear(applied.files)
         found == applied.result
     IN  /\ (/\ mains # {} /\ rears # {}
             /\ applied.readdirOk /\ applied.accessMainOk /\ applied.accessRearOk)
               => found.ok
         /\ found.ok =>
              /\ found.bundle.main \in mains
              /\ \A g \in mains : ~LexLess(found.bundle.main, g)
              /\ found.bundle.rear \in rears
              /\ \A g \in rears : ~LexLess(found.bundle.rear, g)

C14_Witness ==
  /\ applied.fn = "findLatestFirmwareFiles"
  /\ applied.result.ok
  /\ Cardinality(MatchingMain(applied.files)) = 2
  /\ applied.result.bundle.main =
       <<"m", "a", "i", "n", "_", "2", ".", "s", "i", "g", "n", "e", "d", ".", "b", "i", "n">>
  /\ applied.files[1] = applied.result.bundle.main
  /\ LexLess(applied.files[2], applied.files[1])

\* how often the update sent or waited for this
Count(ev) == Cardinality({ i \in 1..Len(UpdateEvents) : UpdateEvents[i] = ev })

\* C15: in a run upload(main), reboot(main), upload(rear) and reboot(rear)
\* are each sent at most once and the update's info request at most twice,
\* as the first request of the update and as the one after the 20000 ms wait.
C15_NoRetry ==
  /\ Count(RequestEvent("upload", "main")) <= 1
  /\ Count(RequestEvent("reboot", "main")) <= 1
  /\ Count(RequestEvent("upload", "rear")) <= 1
  /\ Count(RequestEvent("reboot", "rear")) <= 1
  /\ Count(RequestEvent("info", "none")) <= 2
  /\ \A i \in 1..Len(UpdateEvents) :
        UpdateEvents[i] = RequestEvent("info", "none") =>
           \/ i = 1
           \/ i = 10 /\ UpdateEvents[9] = WaitEvent(20000)

C15_Witness ==
  /\ pc = "exited"
  /\ failure = [step |-> "uploadRear", cause |-> "network", status |-> 0]
  /\ Count(RequestEvent("upload", "rear")) = 1
  /\ Count(RequestEvent("upload", "main")) = 1

AwaitingResponse ==
  pc \in {"info", "uploadMain", "rebootMain", "uploadRear", "rebootRear", "finalInfo"}

\* C16: only the probe's request has a timeout; while the update waits for a
\* request the run leaves that step only by the response or the error of
\* that request, so without either it stays there; and when every request
\* gets its response or error the run ends, done or failed.
C16_NoTimeoutButTermination ==
  /\ [][ /\ \A i \in 1..Len(inflight') :
              inflight'[i].timeout > 0 <=> inflight'[i].tag = "probe"
         /\ (AwaitingResponse /\ pc' # pc) =>
              \/ Len(responses') = Len(responses) + 1
              \/ failure' # failure /\ failure'.cause = "network" ]_vars
  /\ <>(pc \in {"done", "exited"})

C16_Witness ==
  /\ pc = "rebootRear"
  /\ Len(inflight) = 1
  /\ inflight[1].tag = "reboot"
  /\ inflight[1].timeout = 0
  /\ timers = <<>>

\* C17: for every board name passed to rebootDevice the Content-Length of
\* the request is the number of bytes of the body written, and the body is
\* the board name of the query parameter, also for a name that is not 4
\* bytes long.
C17_RebootLengthTracksName ==
  applied.fn = "rebootDevice" =>
     LET req == applied.result.request
     IN  /\ req.method = "POST"
         /\ req.body = applied.board
         /\ req.query = applied.board
         /\ req.hasLength
         /\ req.contentLength = Len(req.body)

\* C18: when reading the main or the rear firmware file fails the run ends
\* with code 1 having sent nothing but the first info request, and whenever
\* an upload or a reboot has been sent both files had been read.
C18_BothFilesReadFirst ==
  /\ failure.step \in {"readMain", "readRear"} =>
        /\ pc = "exited"
        /\ exitCode = 1
        /\ UpdateEvents = <<RequestEvent("info", "none")>>
        /\ inflight = <<>>
        /\ Len(responses) = 1
  /\ (\E i \in 1..Len(events) : IsFlashEvent(events[i])) =>
        /\ mainFirmware.file = firmwareFiles.main
        /\ rearFirmware.file = firmwareFiles.rear
        /\ mainFirmware.file # <<>>
        /\ rearFirmware.file # <<>>

C18_Witness ==
  /\ failure = [step |-> "readRear", cause |-> "file", status |-> 0]
  /\ mainFirmware.file # <<>>
  /\ rearFirmware.file = <<>>
  /\ exitCode = 1

\* C19: when the locator fails the process ends with code 1 and an error
\* that starts with "Failed to find firmware files: ", and no request, the
\* probe included, was sent; no request is ever sent before the locator
\* returned its bundle.
C19_LocatorBeforeNetwork ==
  /\ failure.step = "locate" =>
        /\ pc = "exited"
        /\ exitCode = 1
        /\ Len(error.text) = 2
        /\ error.text[1] = "Failed to find firmware files: "
        /\ events = <<>>
        /\ inflight = <<>>
        /\ probeState = "idle"
  /\ firmwareFiles = NoBundle =>
        /\ events = <<>>
        /\ inflight = <<>>
        /\ pc \in {"start", "exited"}

C19_Witness ==
  /\ failure.step = "locate"
  /\ error.text = <<"Failed to find firmware files: ", "EACCES">>
  /\ exitCode = 1
  /\ events = <<>>
====
